---- MODULE Spec2Model ----
(***************************************************************************)
(* nazim: a CLI that registers commands with the native scheduler of the   *)
(* running OS (systemd user units, launchd agents, Windows Task Scheduler).*)
(*                                                                         *)
(* Conventions.  A Go string is a sequence of one-character strings; the   *)
(* literal pieces of a format string are kept as single tokens, so         *)
(* fmt.Sprintf("nazim-%s.service", n) is <<"nazim-">> \o n \o              *)
(* <<".service">>.  A time.Duration is a whole number of seconds.  A Go    *)
(* error is a short string, nil is OK.  The file system and the three      *)
(* native schedulers are the environment: their state is the variable      *)
(* native, whose shape depends on goos.                                    *)
(***************************************************************************)
EXTENDS Integers, Sequences, FiniteSets, TLC

VARIABLES
    goos,       \* runtime.GOOS of the machine: "linux", "darwin" or "windows"
    native,     \* state of the native scheduler and of the files the adapters write
    last,       \* the adapter call that returned last (harness bookkeeping)
    cfgFile,    \* services.yaml: service name -> descriptor
    scripts,    \* <config dir>/scripts: script path -> content
    procs,      \* the nazim processes of the current CLI invocation
    inv         \* bookkeeping about the current CLI invocation

vars == <<goos, native, last, cfgFile, scripts, procs, inv>>

OK == "ok"
None == "none"

(***************************************************************************)
(* String helpers (package strings)                                        *)
(***************************************************************************)
Range(s) == {s[i] : i \in 1..Len(s)}

RECURSIVE ReplaceAll(_, _, _)
ReplaceAll(s, old, new) ==
    IF old \notin Range(s) THEN s
    ELSE (IF Head(s) = old THEN new ELSE <<Head(s)>>) \o ReplaceAll(Tail(s), old, new)

ContainsAny(s, chars) == \E i \in 1..Len(s) : s[i] \in chars

Contains(s, sub) ==
    \E i \in 0..(Len(s) - Len(sub)) : SubSeq(s, i + 1, i + Len(sub)) = sub

HasPrefix(s, p) == Len(s) >= Len(p) /\ SubSeq(s, 1, Len(p)) = p

WhiteSpace == {" ", "\t", "\n", "\r"}

RECURSIVE TrimLeft(_)
TrimLeft(s) == IF s # <<>> /\ Head(s) \in WhiteSpace THEN TrimLeft(Tail(s)) ELSE s

RECURSIVE TrimRight(_)
TrimRight(s) ==
    IF s # <<>> /\ s[Len(s)] \in WhiteSpace THEN TrimRight(SubSeq(s, 1, Len(s) - 1)) ELSE s

TrimSpace(s) == TrimRight(TrimLeft(s))

\* strings.Join(parts, sep)
RECURSIVE Join(_, _)
Join(parts, sep) ==
    IF parts = <<>> THEN <<>>
    ELSE IF Len(parts) = 1 THEN parts[1]
    ELSE parts[1] \o sep \o Join(Tail(parts), sep)

\* partial functions: files on disk, loaded jobs, scheduled tasks
Put(f, k, v) == [x \in (DOMAIN f) \cup {k} |-> IF x = k THEN v ELSE f[x]]
Del(f, k) == [x \in (DOMAIN f) \ {k} |-> f[x]]
Empty == [x \in {} |-> None]

(***************************************************************************)
(* internal/platform: normalizeServiceName                                 *)
(***************************************************************************)
\* a variant of normalizeServiceName that deletes white space only
normalizeServiceName_WhiteSpaceOnly(name) ==
    ReplaceAll(ReplaceAll(ReplaceAll(ReplaceAll(name, " ", <<>>), "\t", <<>>), "\n", <<>>),
               "\r", <<>>)

normalizeServiceName(name) ==
    LET n1 == ReplaceAll(name, " ", <<>>)
        n2 == ReplaceAll(n1, "\t", <<>>)
        n3 == ReplaceAll(n2, "\n", <<>>)
        n4 == ReplaceAll(n3, "\r", <<>>)
        n5 == ReplaceAll(n4, "\\", <<>>)
        n6 == ReplaceAll(n5, "/", <<>>)
        n7 == ReplaceAll(n6, ":", <<>>)
        n8 == ReplaceAll(n7, "*", <<>>)
        n9 == ReplaceAll(n8, "?", <<>>)
        n10 == ReplaceAll(n9, "\"", <<>>)
        n11 == ReplaceAll(n10, "<", <<>>)
        n12 == ReplaceAll(n11, ">", <<>>)
    IN  ReplaceAll(n12, "|", <<>>)

(***************************************************************************)
(* internal/service: Service, Validate, validateServiceName                *)
(***************************************************************************)
MaxNameLength == 255

invalidChars == <<"\\", "/", ":", "*", "?", "\"", "<", ">", "|", "\n", "\r", "\t">>

\* the runes below 32 and rune 127 that the model's alphabet holds
ControlChars == {"\n", "\r", "\t"}

validateServiceName(name) ==
    IF Len(name) = 0 THEN "service name cannot be empty"
    ELSE IF Len(name) > MaxNameLength THEN "service name too long"
    ELSE IF TrimSpace(name) # name THEN "service name cannot have leading or trailing spaces"
    ELSE IF TrimSpace(name) = <<>> THEN "service name cannot be empty or only whitespace"
    ELSE IF Contains(name, <<".", ".">>) THEN "service name cannot contain '..'"
    ELSE IF HasPrefix(name, <<".">>) THEN "service name cannot start with '.'"
    ELSE IF \E i \in 1..Len(invalidChars) : Contains(name, <<invalidChars[i]>>)
         THEN "service name cannot contain invalid character"
    ELSE IF \E i \in 1..Len(name) : name[i] \in ControlChars
         THEN "service name cannot contain control characters"
    ELSE OK

\* a variant of Validate without the check that a trigger is set
Validate_NoTriggerCheck(s) ==
    IF s.Name = <<>> THEN "service name is required"
    ELSE IF validateServiceName(s.Name) # OK THEN "invalid service name"
    ELSE IF s.Command = <<>> THEN "service command is required"
    ELSE IF s.Interval < 0 THEN "interval cannot be negative"
    ELSE OK

Validate(s) ==
    IF s.Name = <<>> THEN "service name is required"
    ELSE IF validateServiceName(s.Name) # OK THEN "invalid service name"
    ELSE IF s.Command = <<>> THEN "service command is required"
    ELSE IF ~s.OnStartup /\ s.Interval = 0
         THEN "service must have either on_startup=true or an interval"
    ELSE IF s.Interval < 0 THEN "interval cannot be negative"
    ELSE OK

GetInterval(s) == s.Interval

\* what an adapter call returns: the environment afterwards, the error, whether an
\* elevation request was issued ("none", "ok", "declined", "failed"), and the native
\* tool invocations it made
Result(st, err, elev, tools) == [st |-> st, err |-> err, elev |-> elev, tools |-> tools]

(***************************************************************************)
(* Linux: systemd --user.  Environment state:                              *)
(*   files   unit file name -> content (a token sequence)                  *)
(*   enabled unit names with an enablement symlink                         *)
(*   active  started timer units                                           *)
(*   dirs    directories created                                           *)
(***************************************************************************)
LinuxEmpty == [files |-> Empty, enabled |-> {}, active |-> {}, dirs |-> {}]

ServiceUnit(normalizedName) == <<"nazim-">> \o normalizedName \o <<".service">>
TimerUnit(normalizedName) == <<"nazim-">> \o normalizedName \o <<".timer">>
LinuxLogPath(normalizedName) == <<"~/.nazim/logs/">> \o normalizedName \o <<".log">>

\* systemctl --user is-enabled <unit>: exit status and output
SystemctlIsEnabled(sd, unit) ==
    IF unit \notin DOMAIN sd.files
    THEN [exit |-> 1,
          out |-> <<"Failed to get unit file state for ">> \o unit
                  \o <<": ", "No such file", " or directory">>]
    ELSE IF unit \in sd.enabled THEN [exit |-> 0, out |-> <<"enabled">>]
    ELSE IF "[Install]" \in Range(sd.files[unit]) THEN [exit |-> 1, out |-> <<"disabled">>]
    ELSE [exit |-> 0, out |-> <<"static">>]

\* systemctl --user enable <unit>: fails when the unit file does not exist
SystemctlEnable(sd, unit) ==
    IF unit \in DOMAIN sd.files
    THEN [exit |-> 0, st |-> [sd EXCEPT !.enabled = @ \cup {unit}]]
    ELSE [exit |-> 1, st |-> sd]

\* systemctl --user disable <unit>: fails when the unit file does not exist
SystemctlDisable(sd, unit) ==
    IF unit \in DOMAIN sd.files
    THEN [exit |-> 0, st |-> [sd EXCEPT !.enabled = @ \ {unit}]]
    ELSE [exit |-> 1, st |-> sd]

\* systemctl --user start <unit>: a timer becomes active; a oneshot service runs once
SystemctlStart(sd, unit) ==
    IF unit \notin DOMAIN sd.files THEN [exit |-> 1, st |-> sd]
    ELSE IF unit[Len(unit)] = ".timer"
         THEN [exit |-> 0, st |-> [sd EXCEPT !.active = @ \cup {unit}]]
    ELSE [exit |-> 0, st |-> sd]

\* systemctl --user stop <unit>
SystemctlStop(sd, unit) ==
    IF unit \in sd.active
    THEN [exit |-> 0, st |-> [sd EXCEPT !.active = @ \ {unit}]]
    ELSE [exit |-> IF unit \in DOMAIN sd.files THEN 0 ELSE 1, st |-> sd]

formatSystemdDuration(d) ==
    IF d < 60 THEN <<ToString(d), "s">>
    ELSE IF d < 3600 THEN <<ToString(d \div 60), "m">>
    ELSE <<ToString(d \div 3600), "h">>

quoteSystemdArg(s) ==
    LET s1 == ReplaceAll(s, "\\", <<"\\", "\\">>)
        s2 == ReplaceAll(s1, "\"", <<"\\", "\"">>)
        s3 == ReplaceAll(s2, "\n", <<"\\", "n">>)
        s4 == ReplaceAll(s3, "\r", <<"\\", "r">>)
        s5 == ReplaceAll(s4, "\t", <<"\\", "t">>)
    IN  <<"\"">> \o s5 \o <<"\"">>

\* a variant of escapeSystemdValue that leaves carriage returns in place
escapeSystemdValue_NewlineOnly(s) == ReplaceAll(s, "\n", <<" ">>)

escapeSystemdValue(s) == ReplaceAll(ReplaceAll(s, "\n", <<" ">>), "\r", <<" ">>)

\* filepath.IsAbs, and the directory exec.LookPath / filepath.Abs resolve into
IsAbs(path) == path # <<>> /\ path[1] = "/"
ResolvePath(command) == IF IsAbs(command) THEN command ELSE <<"/", "b", "/">> \o command

escapeSystemdExec(command, args) ==
    IF ContainsAny(command, {"\n", "\r"})
    THEN [err |-> "command cannot contain newlines", line |-> <<>>]
    ELSE IF \E i \in 1..Len(args) : ContainsAny(args[i], {"\n", "\r"})
    THEN [err |-> "argument cannot contain newlines", line |-> <<>>]
    ELSE [err |-> OK,
          line |-> <<"ExecStart=">>
                   \o Join(<<quoteSystemdArg(ResolvePath(command))>>
                           \o [i \in 1..Len(args) |-> quoteSystemdArg(args[i])], <<" ">>)]

\* the .service file text up to and including the blank line after StandardError
ServiceContent(svc, execStartLine) ==
    <<"[Unit]", "\n", "Description=Nazim Service: ">> \o escapeSystemdValue(svc.Name)
    \o <<"\n", "After=network.target", "\n", "\n", "[Service]", "\n", "Type=oneshot", "\n">>
    \o execStartLine \o <<"\n">>
    \o (IF svc.WorkDir # <<>>
        THEN <<"WorkingDirectory=">> \o escapeSystemdValue(svc.WorkDir) \o <<"\n">>
        ELSE <<>>)
    \o <<"StandardOutput=append:">> \o LinuxLogPath(normalizeServiceName(svc.Name)) \o <<"\n">>
    \o <<"StandardError=append:">> \o LinuxLogPath(normalizeServiceName(svc.Name)) \o <<"\n">>
    \o <<"\n">>

InstallSection == <<"[Install]", "\n", "WantedBy=default.target", "\n">>

TimerContent(svc) ==
    <<"[Unit]", "\n", "Description=Timer for Nazim Service: ">> \o escapeSystemdValue(svc.Name)
    \o <<"\n", "\n", "[Timer]", "\n", "OnBootSec=">> \o formatSystemdDuration(GetInterval(svc))
    \o <<"\n", "OnUnitActiveSec=">> \o formatSystemdDuration(GetInterval(svc))
    \o <<"\n", "\n", "[Install]", "\n", "WantedBy=timers.target", "\n">>

\* installSystemd, interval branch, from the first WriteFile on
LinuxInstallTimer(sd, svc, normalizedName, content, fail) ==
    LET serviceFile == ServiceUnit(normalizedName)
        timerFile == TimerUnit(normalizedName)
        s1 == [sd EXCEPT !.files = Put(@, serviceFile, content \o InstallSection)]
        s2 == [s1 EXCEPT !.files = Put(@, timerFile, TimerContent(svc))]
        en == SystemctlEnable(s2, timerFile)
        sta == SystemctlStart(en.st, timerFile)
    IN  IF fail = "write_service" THEN Result(sd, "failed to write service file", None, {})
        ELSE IF fail = "write_timer" THEN Result(s1, "failed to write timer file", None, {})
        ELSE IF fail = "daemon-reload"
             THEN Result(s2, "failed to reload systemd daemon", None, {"daemon-reload"})
        ELSE IF fail = "enable" \/ en.exit # 0
             THEN Result(s2, "failed to enable timer", None, {"daemon-reload", "enable"})
        ELSE IF fail = "start" \/ sta.exit # 0
             THEN Result(en.st, "failed to start timer", None,
                         {"daemon-reload", "enable", "start"})
        ELSE Result(sta.st, OK, None, {"daemon-reload", "enable", "start"})

\* installSystemd, startup-only branch, from the WriteFile on
LinuxInstallStartup(sd, svc, normalizedName, content, fail) ==
    LET serviceFile == ServiceUnit(normalizedName)
        s1 == [sd EXCEPT !.files = Put(@, serviceFile, content \o InstallSection)]
        en == SystemctlEnable(s1, serviceFile)
    IN  IF fail = "write_service" THEN Result(sd, "failed to write service file", None, {})
        ELSE IF fail = "daemon-reload"
             THEN Result(s1, "failed to reload systemd daemon", None, {"daemon-reload"})
        ELSE IF fail = "enable" \/ en.exit # 0
             THEN Result(s1, "failed to enable service", None, {"daemon-reload", "enable"})
        ELSE Result(en.st, OK, None, {"daemon-reload", "enable"})

LinuxInstall(sd, svc, fail) ==
    LET s0 == [sd EXCEPT !.dirs = @ \cup {"systemd", "logs"}]
        exec == escapeSystemdExec(svc.Command, svc.Args)
        content == ServiceContent(svc, exec.line)
        normalizedName == normalizeServiceName(svc.Name)
    IN  IF fail = "mkdir" THEN Result(sd, "failed to create systemd directory", None, {})
        ELSE IF exec.err # OK THEN Result(s0, "failed to escape command", None, {})
        ELSE IF GetInterval(svc) > 0 THEN LinuxInstallTimer(s0, svc, normalizedName, content, fail)
        ELSE IF svc.OnStartup /\ GetInterval(svc) = 0
             THEN LinuxInstallStartup(s0, svc, normalizedName, content, fail)
        ELSE Result(s0, OK, None, {})

\* a variant of LinuxRemoveUnits that handles the timer unit only
LinuxRemoveUnits_TimerOnly(sd, normalizedName) ==
    LET timerName == TimerUnit(normalizedName)
        s1 == SystemctlStop(sd, timerName).st
        s2 == SystemctlDisable(s1, timerName).st
    IN  [s2 EXCEPT !.files = Del(@, timerName)]

\* the stop/disable calls and the two os.Remove calls, whose errors are all ignored
LinuxRemoveUnits(sd, normalizedName) ==
    LET serviceFile == ServiceUnit(normalizedName)
        timerName == TimerUnit(normalizedName)
        s1 == SystemctlStop(sd, timerName).st
        s2 == SystemctlDisable(s1, timerName).st
        s3 == SystemctlStop(s2, serviceFile).st
        s4 == SystemctlDisable(s3, serviceFile).st
    IN  [s4 EXCEPT !.files = Del(Del(@, serviceFile), timerName)]

LinuxUninstall(sd, name, fail) ==
    LET s == LinuxRemoveUnits(sd, normalizeServiceName(name))
        tools == {"stop", "disable", "daemon-reload"}
    IN  IF fail = "daemon-reload" THEN Result(s, "failed to reload systemd daemon", None, tools)
        ELSE Result(s, OK, None, tools)

LinuxEnable(sd, name, fail) ==
    LET r == SystemctlEnable(sd, TimerUnit(normalizeServiceName(name)))
    IN  IF fail = "tool" \/ r.exit # 0 THEN Result(sd, "failed to enable service", None, {"enable"})
        ELSE Result(r.st, OK, None, {"enable"})

LinuxDisable(sd, name, fail) ==
    LET r == SystemctlDisable(sd, TimerUnit(normalizeServiceName(name)))
    IN  IF fail = "tool" \/ r.exit # 0
        THEN Result(sd, "failed to disable service", None, {"disable"})
        ELSE Result(r.st, OK, None, {"disable"})

LinuxRun(sd, name, fail) ==
    LET r == SystemctlStart(sd, ServiceUnit(normalizeServiceName(name)))
    IN  IF fail = "tool" \/ r.exit # 0 THEN Result(sd, "failed to run service", None, {"start"})
        ELSE Result(r.st, OK, None, {"start"})

LinuxIsInstalled(sd, name) ==
    SystemctlIsEnabled(sd, ServiceUnit(normalizeServiceName(name))).exit = 0

\* the state string, or the error, GetTaskState returns
LinuxGetTaskState(sd, name) ==
    LET q == SystemctlIsEnabled(sd, TimerUnit(normalizeServiceName(name)))
        outputStr == TrimSpace(q.out)
    IN  IF q.exit # 0
        THEN IF Contains(outputStr, <<"not found">>) \/ Contains(outputStr, <<"No such file">>)
             THEN [state |-> None, err |-> "timer not found"]
             ELSE IF outputStr = <<"disabled">> THEN [state |-> "Disabled", err |-> OK]
             ELSE [state |-> None, err |-> "failed to query timer state"]
        ELSE IF outputStr = <<"enabled">> \/ outputStr = <<"static">>
             THEN [state |-> "Enabled", err |-> OK]
        ELSE [state |-> "Disabled", err |-> OK]

(***************************************************************************)
(* macOS: launchd.  Environment state:                                     *)
(*   files   plist path -> content (a token sequence)                      *)
(*   loaded  label -> the plist content launchd loaded for it              *)
(*   dirs    directories created                                           *)
(***************************************************************************)
DarwinEmpty == [files |-> Empty, loaded |-> Empty, dirs |-> {}]

Label(normalizedName) == <<"com.nazim.">> \o normalizedName
PlistFile(normalizedName) ==
    <<"~/Library/LaunchAgents/">> \o Label(normalizedName) \o <<".plist">>
DarwinLogPath(normalizedName, ext) == <<"~/.nazim/logs/">> \o normalizedName \o <<ext>>

\* the label of the job a plist file of this program defines
LabelOfPlist(plistFile) == SubSeq(plistFile, 2, Len(plistFile) - 1)

\* launchctl load <plist>: fails when the file is missing or the job is already loaded
LaunchctlLoad(ld, plistFile) ==
    IF plistFile \notin DOMAIN ld.files \/ LabelOfPlist(plistFile) \in DOMAIN ld.loaded
    THEN [exit |-> 1, st |-> ld]
    ELSE [exit |-> 0,
          st |-> [ld EXCEPT !.loaded = Put(@, LabelOfPlist(plistFile), ld.files[plistFile])]]

\* launchctl unload <plist>: fails when the job is not loaded
LaunchctlUnload(ld, plistFile) ==
    IF LabelOfPlist(plistFile) \in DOMAIN ld.loaded
    THEN [exit |-> 0, out |-> <<>>,
          st |-> [ld EXCEPT !.loaded = Del(@, LabelOfPlist(plistFile))]]
    ELSE [exit |-> 1, out |-> plistFile \o <<": ", "Could not find specified service">>,
          st |-> ld]

\* launchctl list: one line per loaded job
RECURSIVE ListLines(_)
ListLines(labels) ==
    IF labels = {} THEN <<>>
    ELSE LET l == CHOOSE x \in labels : TRUE
         IN  <<"-", "\t", "0", "\t">> \o l \o <<"\n">> \o ListLines(labels \ {l})

LaunchctlList(ld) == <<"PID", "\t", "Status", "\t", "Label", "\n">> \o ListLines(DOMAIN ld.loaded)

escapeXML(s) ==
    LET s1 == ReplaceAll(s, "&", <<"&", "a", "m", "p", ";">>)
        s2 == ReplaceAll(s1, "<", <<"&", "l", "t", ";">>)
        s3 == ReplaceAll(s2, ">", <<"&", "g", "t", ";">>)
        s4 == ReplaceAll(s3, "\"", <<"&", "q", "u", "o", "t", ";">>)
    IN  ReplaceAll(s4, "'", <<"&", "a", "p", "o", "s", ";">>)

RECURSIVE PlistArgs(_)
PlistArgs(args) ==
    IF args = <<>> THEN <<>>
    ELSE <<"<string>">> \o escapeXML(Head(args)) \o <<"</string>", "\n">> \o PlistArgs(Tail(args))

PlistContent(svc) ==
    LET normalizedName == normalizeServiceName(svc.Name)
    IN  <<"<plist>", "<dict>", "\n", "<key>Label</key>", "<string>">> \o Label(normalizedName)
        \o <<"</string>", "\n", "<key>ProgramArguments</key>", "<array>", "\n">>
        \o <<"<string>">> \o escapeXML(svc.Command) \o <<"</string>", "\n">>
        \o PlistArgs(svc.Args) \o <<"</array>", "\n">>
        \o (IF svc.WorkDir # <<>>
            THEN <<"<key>WorkingDirectory</key>", "<string>">> \o escapeXML(svc.WorkDir)
                 \o <<"</string>", "\n">>
            ELSE <<>>)
        \o (IF svc.OnStartup THEN <<"<key>RunAtLoad</key>", "<true/>", "\n">> ELSE <<>>)
        \o (IF GetInterval(svc) > 0
            THEN <<"<key>StartInterval</key>", "<integer>", ToString(GetInterval(svc)),
                   "</integer>", "\n">>
            ELSE <<>>)
        \o <<"<key>StandardOutPath</key>", "<string>">> \o DarwinLogPath(normalizedName, ".out")
        \o <<"</string>", "\n", "<key>StandardErrorPath</key>", "<string>">>
        \o DarwinLogPath(normalizedName, ".err") \o <<"</string>", "\n", "</dict>", "</plist>", "\n">>

\* launchctl load, and on failure one unload followed by a second load
DarwinLoadWithRetry(ld, plistFile, fail) ==
    LET l1 == LaunchctlLoad(ld, plistFile)
        u == LaunchctlUnload(ld, plistFile)
        l2 == LaunchctlLoad(u.st, plistFile)
    IN  IF fail # "load" /\ l1.exit = 0 THEN Result(l1.st, OK, None, {"load"})
        ELSE IF fail # "load" /\ l2.exit = 0 THEN Result(l2.st, OK, None, {"load", "unload"})
        ELSE Result(u.st, "failed to load service", None, {"load", "unload"})

DarwinInstall(ld, svc, fail) ==
    LET plistFile == PlistFile(normalizeServiceName(svc.Name))
        s0 == [ld EXCEPT !.dirs = @ \cup {"LaunchAgents"}]
        s1 == [s0 EXCEPT !.dirs = @ \cup {"logs"}]
        s2 == [s1 EXCEPT !.files = Put(@, plistFile, PlistContent(svc))]
    IN  IF fail = "mkdir" THEN Result(s0, "failed to create log directory", None, {})
        ELSE IF fail = "write_plist" THEN Result(s1, "failed to write plist file", None, {})
        ELSE DarwinLoadWithRetry(s2, plistFile, fail)

DarwinUninstall(ld, name, fail) ==
    LET plistFile == PlistFile(normalizeServiceName(name))
        u == LaunchctlUnload(ld, plistFile)
    IN  IF fail = "remove" /\ plistFile \in DOMAIN ld.files
        THEN Result(u.st, "failed to remove plist file", None, {"unload"})
        ELSE Result([u.st EXCEPT !.files = Del(@, plistFile)], OK, None, {"unload"})

DarwinEnable(ld, name, fail) ==
    LET r == LaunchctlLoad(ld, PlistFile(normalizeServiceName(name)))
    IN  IF fail = "tool" \/ r.exit # 0 THEN Result(ld, "failed to enable service", None, {"load"})
        ELSE Result(r.st, OK, None, {"load"})

\* strings.ToLower of the tool's message tokens
ToLower(out) ==
    [i \in 1..Len(out) |->
        IF out[i] = "Could not find specified service"
        THEN "could not find specified service" ELSE out[i]]

DarwinDisable(ld, name, fail) ==
    LET r == LaunchctlUnload(ld, PlistFile(normalizeServiceName(name)))
    IN  IF fail = "tool" THEN Result(ld, "failed to disable service", None, {"unload"})
        ELSE IF r.exit # 0
        THEN IF Contains(ToLower(r.out), <<"could not find service">>)
             THEN Result(ld, OK, None, {"unload"})
             ELSE Result(ld, "failed to disable service", None, {"unload"})
        ELSE Result(r.st, OK, None, {"unload"})

\* launchctl start <label>: fails when no such job is loaded
DarwinRun(ld, name, fail) ==
    IF fail = "tool" \/ Label(normalizeServiceName(name)) \notin DOMAIN ld.loaded
    THEN Result(ld, "failed to run service", None, {"start"})
    ELSE Result(ld, OK, None, {"start"})

DarwinIsInstalled(ld, name) == PlistFile(normalizeServiceName(name)) \in DOMAIN ld.files

DarwinGetTaskState(ld, name) ==
    LET normalizedName == normalizeServiceName(name)
    IN  IF Contains(LaunchctlList(ld), Label(normalizedName))
        THEN [state |-> "Enabled", err |-> OK]
        ELSE IF PlistFile(normalizedName) \in DOMAIN ld.files
        THEN [state |-> "Disabled", err |-> OK]
        ELSE [state |-> None, err |-> "agent not found"]

(***************************************************************************)
(* Windows: Task Scheduler through schtasks.  Environment state:           *)
(*   tasks   task name -> [tr, sched, enabled]                             *)
(*   files   wrapper script path -> content (a token sequence)             *)
(*   dirs    directories created                                           *)
(* admin is isAdmin() of the calling process; elev is what requestElevation*)
(* would answer it: "ok" (ShellExecute started the elevated process),      *)
(* "declined" (error 1223) or "failed" (any other error).                  *)
(***************************************************************************)
WindowsEmpty == [tasks |-> Empty, files |-> Empty, dirs |-> {}]

TaskName(normalizedName) == <<"Nazim_">> \o normalizedName
WrapperPath(normalizedName) ==
    <<"%APPDATA%/nazim/wrappers/">> \o normalizedName \o <<"-wrapper.ps1">>
WindowsLogPath(normalizedName) == <<"%APPDATA%/nazim/logs/">> \o normalizedName \o <<".log">>

requestElevation(elev) ==
    IF elev = "ok" THEN OK
    ELSE IF elev = "declined" THEN "elevation was cancelled"
    ELSE "failed to elevate privileges"

checkAdminOrElevate(admin, elev) == IF admin THEN OK ELSE requestElevation(elev)

escapeWindowsCommand(s) ==
    IF ContainsAny(s, {" ", "\t", "\"", "&", "|", "<", ">", "(", ")"})
    THEN <<"\"">> \o ReplaceAll(s, "\"", <<"\"", "\"">>) \o <<"\"">>
    ELSE s

buildWindowsCommand(cmd, args) ==
    IF Len(args) = 0 THEN escapeWindowsCommand(cmd)
    ELSE escapeWindowsCommand(cmd) \o <<" ">>
         \o Join([i \in 1..Len(args) |-> escapeWindowsCommand(args[i])], <<" ">>)

\* How a Windows process splits its command line into argv (the C runtime rules):
\* the program name ends at the closing quote or at white space; in an argument,
\* 2n backslashes before a quote give n backslashes and the quote delimits, 2n+1
\* give n backslashes and a literal quote, "" inside quotes is a literal quote
LeadingBackslashes(s) ==
    CHOOSE k \in 0..Len(s) :
        (\A i \in 1..k : s[i] = "\\") /\ (k = Len(s) \/ s[k + 1] # "\\")

RECURSIVE ParseArg(_, _, _)
ParseArg(s, inQuotes, acc) ==
    LET n == LeadingBackslashes(s)
        t == SubSeq(s, n + 1, Len(s))
        slashes(k) == [i \in 1..k |-> "\\"]
    IN  IF s = <<>> THEN [arg |-> acc, rest |-> <<>>]
        ELSE IF n > 0
        THEN IF t # <<>> /\ Head(t) = "\""
             THEN IF n % 2 = 1
                  THEN ParseArg(Tail(t), inQuotes, acc \o slashes(n \div 2) \o <<"\"">>)
                  ELSE ParseArg(t, inQuotes, acc \o slashes(n \div 2))
             ELSE ParseArg(t, inQuotes, acc \o slashes(n))
        ELSE IF Head(s) = "\""
        THEN IF inQuotes /\ Len(s) >= 2 /\ s[2] = "\""
             THEN ParseArg(SubSeq(s, 3, Len(s)), TRUE, acc \o <<"\"">>)
             ELSE ParseArg(Tail(s), ~inQuotes, acc)
        ELSE IF ~inQuotes /\ Head(s) \in {" ", "\t"} THEN [arg |-> acc, rest |-> s]
        ELSE ParseArg(Tail(s), inQuotes, acc \o <<Head(s)>>)

RECURSIVE ParseArgs(_)
ParseArgs(str) ==
    LET s == TrimLeft(str)
        r == ParseArg(s, FALSE, <<>>)
    IN  IF s = <<>> THEN <<>> ELSE <<r.arg>> \o ParseArgs(r.rest)

CommandLineToArgv(s) ==
    LET quoted == s # <<>> /\ Head(s) = "\""
        body == IF quoted THEN Tail(s) ELSE s
        stop == IF quoted THEN {"\""} ELSE {" ", "\t"}
        n == IF \E i \in 1..Len(body) : body[i] \in stop
             THEN (CHOOSE i \in 1..Len(body) :
                     body[i] \in stop /\ \A j \in 1..(i - 1) : body[j] \notin stop) - 1
             ELSE Len(body)
    IN  IF s = <<>> THEN <<>>
        ELSE <<SubSeq(body, 1, n)>>
             \o ParseArgs(SubSeq(body, n + (IF quoted THEN 2 ELSE 1), Len(body)))

escapeWindowsPath(path) == <<"\"">> \o ReplaceAll(path, "\"", <<"\"", "\"">>) \o <<"\"">>

\* the text createLoggingWrapper writes: the three places the template is filled in
WrapperContent(normalizedName, command, logPath) ==
    <<"# Service: ">> \o normalizedName \o <<"\n", "$logFile = '">>
    \o ReplaceAll(logPath, "'", <<"'", "'">>) \o <<"'", "\n", "$output = & cmd /c '">>
    \o ReplaceAll(command, "'", <<"'", "'">>) \o <<"' 2>&1", "\n">>

\* the schedule arguments Install appends to schtasks /create
ScheduleArgs(svc) ==
    LET hasInterval == GetInterval(svc) > 0
        hasStartup == svc.OnStartup
        minutes == GetInterval(svc) \div 60
    IN  IF hasInterval
        THEN IF minutes > 0
             THEN IF hasStartup THEN <<"/sc", "onstart", "/ri", ToString(minutes)>>
                  ELSE <<"/sc", "minute", "/mo", ToString(minutes)>>
             ELSE <<>>
        ELSE IF hasStartup THEN <<"/sc", "onstart">>
        ELSE <<>>

\* schtasks /create /tn <tn> /tr <tr> /f <sched>: /sc is mandatory
SchtasksCreate(ts, tn, tr, sched) ==
    IF sched = <<>> THEN [exit |-> 1, st |-> ts]
    ELSE [exit |-> 0,
          st |-> [ts EXCEPT !.tasks = Put(@, tn, [tr |-> tr, sched |-> sched, enabled |-> TRUE])]]

\* schtasks /delete /tn <tn> /f
SchtasksDelete(ts, tn) ==
    IF tn \in DOMAIN ts.tasks
    THEN [exit |-> 0, out |-> <<"SUCCESS">>, st |-> [ts EXCEPT !.tasks = Del(@, tn)]]
    ELSE [exit |-> 1, out |-> <<"ERROR: The system ", "cannot find", " the file specified.">>,
          st |-> ts]

\* schtasks /change /tn <tn> /enable or /disable
SchtasksChange(ts, tn, enabled) ==
    IF tn \in DOMAIN ts.tasks
    THEN [exit |-> 0, st |-> [ts EXCEPT !.tasks[tn].enabled = enabled]]
    ELSE [exit |-> 1, st |-> ts]

StatusReady == <<"R", "e", "a", "d", "y">>
StatusDisabled == <<"D", "i", "s", "a", "b", "l", "e", "d">>

\* schtasks /query /tn <tn>: the table row of the task
SchtasksQuery(ts, tn) ==
    IF tn \in DOMAIN ts.tasks
    THEN [exit |-> 0,
          out |-> <<"TaskName", " ", "Next Run Time", " ", "Status", "\n">> \o tn
                  \o <<" ", "N/A", " ">>
                  \o (IF ts.tasks[tn].enabled THEN StatusReady ELSE StatusDisabled) \o <<"\n">>]
    ELSE [exit |-> 1, out |-> <<"ERROR: The system ", "cannot find", " the file specified.">>]

deleteLoggingWrapper(ts, normalizedName) ==
    [ts EXCEPT !.files = Del(@, WrapperPath(normalizedName))]

createLoggingWrapper(ts, normalizedName, command, logPath) ==
    [ts EXCEPT !.dirs = @ \cup {"wrappers"},
               !.files = Put(@, WrapperPath(normalizedName),
                             WrapperContent(normalizedName, command, logPath))]

WindowsUninstall(ts, name, admin, elev, fail) ==
    LET normalizedName == normalizeServiceName(name)
        del == SchtasksDelete(ts, TaskName(normalizedName))
    IN  IF ~admin
        THEN IF checkAdminOrElevate(admin, elev) # OK
             THEN Result(ts, "administrator privileges required", elev, {})
             ELSE Result(ts, "Elevated process will handle deletion", elev, {})
        ELSE IF fail = "tool" THEN Result(ts, "failed to delete task", None, {"/delete"})
        ELSE IF del.exit # 0
        THEN IF Contains(del.out, <<"does not exist">>) \/ Contains(del.out, <<"cannot find">>)
                \/ Contains(del.out, <<"not found">>)
             THEN Result(deleteLoggingWrapper(ts, normalizedName), OK, None, {"/delete"})
             ELSE Result(ts, "failed to delete task", None, {"/delete"})
        ELSE Result(deleteLoggingWrapper(del.st, normalizedName), OK, None, {"/delete"})

\* Install from the point where the old task has been deleted; un is what the
\* Uninstall call left behind
WindowsCreateTask(un, svc, normalizedName, fail) ==
    LET s1 == [un.st EXCEPT !.dirs = @ \cup {"logs"}]
        logPath == WindowsLogPath(normalizedName)
        built == buildWindowsCommand(svc.Command, svc.Args)
        command == IF svc.WorkDir # <<>>
                   THEN <<"cd /d ">> \o escapeWindowsPath(svc.WorkDir) \o <<" && ">> \o built
                   ELSE built
        s2 == createLoggingWrapper(s1, normalizedName, command, logPath)
        commandWithLogs == <<"powershell -NoProfile -ExecutionPolicy Bypass -File \"">>
                           \o WrapperPath(normalizedName) \o <<"\"">>
        cr == SchtasksCreate(s2, TaskName(normalizedName), commandWithLogs, ScheduleArgs(svc))
    IN  IF fail = "mkdir" THEN Result(un.st, "failed to create log directory", None, un.tools)
        ELSE IF fail = "wrapper"
             THEN Result(s1, "failed to create logging wrapper", None, un.tools)
        ELSE IF fail = "create" \/ cr.exit # 0
             THEN Result(s2, "failed to create task", None, un.tools \cup {"/create"})
        ELSE Result(cr.st, OK, None, un.tools \cup {"/create"})

\* Install once the process is known to be elevated
WindowsInstallAsAdmin(ts, svc, fail) ==
    WindowsCreateTask(WindowsUninstall(ts, svc.Name, TRUE, None, None), svc,
                      normalizeServiceName(svc.Name), fail)

\* a variant of WindowsInstall that goes on to install after a granted elevation
WindowsInstall_FallThrough(ts, svc, admin, elev, fail) ==
    IF ~admin /\ requestElevation(elev) # OK
    THEN Result(ts, "failed to request elevation", elev, {})
    ELSE WindowsInstallAsAdmin(ts, svc, fail)

WindowsInstall(ts, svc, admin, elev, fail) ==
    IF ~admin
    THEN IF requestElevation(elev) # OK
         THEN IF elev = "declined"
              THEN Result(ts, "UAC prompt was cancelled or denied", elev, {})
              ELSE Result(ts, "failed to request elevation", elev, {})
         ELSE Result(ts, OK, elev, {})
    ELSE WindowsInstallAsAdmin(ts, svc, fail)

WindowsEnable(ts, name, admin, elev, fail) ==
    LET ch == SchtasksChange(ts, TaskName(normalizeServiceName(name)), TRUE)
    IN  IF ~admin
        THEN IF checkAdminOrElevate(admin, elev) # OK
             THEN Result(ts, "administrator privileges required", elev, {})
             ELSE Result(ts, "Elevated process will handle enable", elev, {})
        ELSE IF fail = "tool" \/ ch.exit # 0
             THEN Result(ts, "failed to enable task", None, {"/change"})
        ELSE Result(ch.st, OK, None, {"/change"})

WindowsDisable(ts, name, admin, elev, fail) ==
    LET ch == SchtasksChange(ts, TaskName(normalizeServiceName(name)), FALSE)
    IN  IF ~admin
        THEN IF checkAdminOrElevate(admin, elev) # OK
             THEN Result(ts, "administrator privileges required", elev, {})
             ELSE Result(ts, "Elevated process will handle disable", elev, {})
        ELSE IF fail = "tool" \/ ch.exit # 0
             THEN Result(ts, "failed to disable task", None, {"/change"})
        ELSE Result(ch.st, OK, None, {"/change"})

\* schtasks /run /tn <tn>: needs no elevation
WindowsRun(ts, name, fail) ==
    IF TaskName(normalizeServiceName(name)) \notin DOMAIN ts.tasks
    THEN Result(ts, "task not found - service may not be installed", None, {"/run"})
    ELSE IF fail = "tool" THEN Result(ts, "failed to run task", None, {"/run"})
    ELSE Result(ts, OK, None, {"/run"})

WindowsIsInstalled(ts, name) ==
    SchtasksQuery(ts, TaskName(normalizeServiceName(name))).exit = 0

WindowsGetTaskState(ts, name) ==
    LET q == SchtasksQuery(ts, TaskName(normalizeServiceName(name)))
    IN  IF q.exit # 0
        THEN IF Contains(q.out, <<"does not exist">>) \/ Contains(q.out, <<"cannot find">>)
             THEN [state |-> None, err |-> "task not found"]
             ELSE [state |-> None, err |-> "failed to query task"]
        ELSE IF Contains(q.out, StatusDisabled) THEN [state |-> "Disabled", err |-> OK]
        ELSE [state |-> "Enabled", err |-> OK]

(***************************************************************************)
(* internal/platform: Manager, the adapter of the running OS               *)
(***************************************************************************)
EmptyNative(os) ==
    IF os = "linux" THEN LinuxEmpty ELSE IF os = "darwin" THEN DarwinEmpty ELSE WindowsEmpty

Install(os, st, svc, admin, elev, fail) ==
    IF os = "linux" THEN LinuxInstall(st, svc, fail)
    ELSE IF os = "darwin" THEN DarwinInstall(st, svc, fail)
    ELSE WindowsInstall(st, svc, admin, elev, fail)

Uninstall(os, st, name, admin, elev, fail) ==
    IF os = "linux" THEN LinuxUninstall(st, name, fail)
    ELSE IF os = "darwin" THEN DarwinUninstall(st, name, fail)
    ELSE WindowsUninstall(st, name, admin, elev, fail)

Enable(os, st, name, admin, elev, fail) ==
    IF os = "linux" THEN LinuxEnable(st, name, fail)
    ELSE IF os = "darwin" THEN DarwinEnable(st, name, fail)
    ELSE WindowsEnable(st, name, admin, elev, fail)

Disable(os, st, name, admin, elev, fail) ==
    IF os = "linux" THEN LinuxDisable(st, name, fail)
    ELSE IF os = "darwin" THEN DarwinDisable(st, name, fail)
    ELSE WindowsDisable(st, name, admin, elev, fail)

Run(os, st, name, fail) ==
    IF os = "linux" THEN LinuxRun(st, name, fail)
    ELSE IF os = "darwin" THEN DarwinRun(st, name, fail)
    ELSE WindowsRun(st, name, fail)

IsInstalled(os, st, name) ==
    IF os = "linux" THEN LinuxIsInstalled(st, name)
    ELSE IF os = "darwin" THEN DarwinIsInstalled(st, name)
    ELSE WindowsIsInstalled(st, name)

GetTaskState(os, st, name) ==
    IF os = "linux" THEN LinuxGetTaskState(st, name)
    ELSE IF os = "darwin" THEN DarwinGetTaskState(st, name)
    ELSE WindowsGetTaskState(st, name)

(***************************************************************************)
(* Inputs                                                                  *)
(***************************************************************************)
MaxMinutes == 1

\* a service name that normalizeServiceName changes: its safe name is "ab"
Names == {<<"a", " ", "b">>}
\* two command bodies: a bare command, and one with an argument and a working directory
Programs ==
    {[Command |-> <<"x">>, Args |-> <<>>, WorkDir |-> <<>>],
     [Command |-> <<"y">>, Args |-> << <<"v">> >>, WorkDir |-> <<"w">>]}
\* no interval, a sub-minute interval, whole minutes
Intervals == {0, 30} \cup {60 * m : m \in 1..MaxMinutes}
Platforms == {"linux", "darwin", "windows"}

Service(name, prog, onStartup, interval, os) ==
    [Name |-> name, Command |-> prog.Command, Args |-> prog.Args, WorkDir |-> prog.WorkDir,
     OnStartup |-> onStartup, Interval |-> interval, Enabled |-> TRUE, Platform |-> os]

Services(os) ==
    {Service(n, p, b, i, os) : n \in Names, p \in Programs, b \in BOOLEAN, i \in Intervals}

\* what the environment can make fail in one adapter call
InstallFaults(os) ==
    IF os = "linux"
    THEN {None, "mkdir", "write_service", "write_timer", "daemon-reload", "enable", "start"}
    ELSE IF os = "darwin" THEN {None, "mkdir", "write_plist", "load"}
    ELSE {None, "mkdir", "wrapper", "create"}

UninstallFaults(os) ==
    IF os = "linux" THEN {None, "daemon-reload"}
    ELSE IF os = "darwin" THEN {None, "remove"}
    ELSE {None, "tool"}

ToolFaults == {None, "tool"}

\* the processes that can call an adapter: <<isAdmin(), answer of requestElevation>>
Callers(os) ==
    IF os = "windows"
    THEN {<<TRUE, None>>, <<FALSE, "ok">>, <<FALSE, "declined">>, <<FALSE, "failed">>}
    ELSE {<<TRUE, None>>}

\* the environment faults a caller can meet: an unelevated Windows caller runs no tool
FaultsOf(c, faults) == IF c[1] THEN faults ELSE {None}

\* the installs during which the environment may fail: those of one program
Fragile(svc) == svc.Command = <<"x">>

(***************************************************************************)
(* The adapter harness: a caller invokes the Manager interface directly.   *)
(* last records the call that returned last:                               *)
(*   op, name, err, tools  the call and its result                         *)
(*   fault    the failure the environment injected into the call           *)
(*   svc      the descriptor handed to Install, None for the other calls   *)
(*   admin, elev  the caller: isAdmin() and the answer an elevation        *)
(*            request gets                                                 *)
(*   mutated  whether the call changed the environment                     *)
(*   pre      "fresh" when the call before it was a successful Install of  *)
(*            the same name made with admin rights, "fresh-disabled" when  *)
(*            that was followed by a successful Disable of the same name   *)
(***************************************************************************)
NoCall ==
    [op |-> None, name |-> <<>>, svc |-> None, err |-> OK, elev |-> None, admin |-> TRUE,
     fault |-> None, tools |-> {}, mutated |-> FALSE, pre |-> None]

Stage(name) ==
    IF last.name # name \/ last.err # OK \/ ~last.admin THEN None
    ELSE IF last.op = "Install" THEN "fresh"
    ELSE IF last.op = "Disable" /\ last.pre = "fresh" THEN "fresh-disabled"
    ELSE None

Returned(op, name, svc, caller, fail, res) ==
    \E r \in {res} :
    /\ native' = r.st
    /\ last' = [op |-> op, name |-> name, svc |-> svc, err |-> r.err, elev |-> caller[2],
                admin |-> caller[1], fault |-> fail, tools |-> r.tools,
                mutated |-> (r.st # native), pre |-> Stage(name)]
    /\ UNCHANGED <<goos, cfgFile, scripts, procs, inv>>

CallInstall ==
    \E svc \in Services(goos), c \in Callers(goos) :
      \E fail \in (IF Fragile(svc) THEN FaultsOf(c, InstallFaults(goos)) ELSE {None}) :
        /\ Validate(svc) = OK
        /\ Returned("Install", svc.Name, svc, c, fail,
                    Install(goos, native, svc, c[1], c[2], fail))

CallUninstall ==
    \E name \in Names, c \in Callers(goos) : \E fail \in FaultsOf(c, UninstallFaults(goos)) :
        Returned("Uninstall", name, None, c, fail,
                 Uninstall(goos, native, name, c[1], c[2], fail))

CallEnable ==
    \E name \in Names, c \in Callers(goos) : \E fail \in FaultsOf(c, ToolFaults) :
        Returned("Enable", name, None, c, fail,
                 Enable(goos, native, name, c[1], c[2], fail))

CallDisable ==
    \E name \in Names, c \in Callers(goos) : \E fail \in FaultsOf(c, ToolFaults) :
        Returned("Disable", name, None, c, fail,
                 Disable(goos, native, name, c[1], c[2], fail))

CallRun ==
    \E name \in Names, c \in Callers(goos) : \E fail \in FaultsOf(c, ToolFaults) :
        Returned("Run", name, None, c, fail,
                 Run(goos, native, name, fail))

AdapterInit ==
    /\ goos \in Platforms
    /\ native = EmptyNative(goos)
    /\ last = NoCall
    /\ cfgFile = Empty
    /\ scripts = Empty
    /\ procs = <<>>
    /\ inv = None

AdapterNext == CallInstall \/ CallUninstall \/ CallEnable \/ CallDisable \/ CallRun

SpecAdapter == AdapterInit /\ [][AdapterNext]_vars

(***************************************************************************)
(* Several services side by side: a caller with admin rights installs,     *)
(* removes, enables and disables services whose native identifiers contain *)
(* one another or the text of a status column.                             *)
(***************************************************************************)
SideBySide == {<<"a", "b">>, <<"a", "b", "c">>, StatusDisabled}

InstallBeside ==
    \E name \in SideBySide :
        Returned("Install", name, None, <<TRUE, None>>, None,
                 Install(goos, native,
                         Service(name, [Command |-> <<"x">>, Args |-> <<>>, WorkDir |-> <<>>],
                                 TRUE, 0, goos),
                         TRUE, None, None))

UninstallBeside ==
    \E name \in SideBySide :
        Returned("Uninstall", name, None, <<TRUE, None>>, None,
                 Uninstall(goos, native, name, TRUE, None, None))

EnableBeside ==
    \E name \in SideBySide :
        Returned("Enable", name, None, <<TRUE, None>>, None,
                 Enable(goos, native, name, TRUE, None, None))

DisableBeside ==
    \E name \in SideBySide :
        Returned("Disable", name, None, <<TRUE, None>>, None,
                 Disable(goos, native, name, TRUE, None, None))

SideBySideNext == InstallBeside \/ UninstallBeside \/ EnableBeside \/ DisableBeside

SpecSideBySide == AdapterInit /\ [][SideBySideNext]_vars

(***************************************************************************)
(* internal/service: Duration as it is written to and read from the config *)
(***************************************************************************)
Digits == <<"0", "1", "2", "3", "4", "5", "6", "7", "8", "9">>

DigitVal(c) == (CHOOSE i \in 1..10 : Digits[i] = c) - 1

IsDigit(c) == \E i \in 1..10 : Digits[i] = c

\* fmt.Sprintf("%d", n) for n >= 0
RECURSIVE Itoa(_)
Itoa(n) == IF n < 10 THEN <<Digits[n + 1]>> ELSE Itoa(n \div 10) \o <<Digits[(n % 10) + 1]>>

RECURSIVE DigitsValue(_, _)
DigitsValue(s, acc) ==
    IF s = <<>> \/ ~IsDigit(Head(s)) THEN acc
    ELSE DigitsValue(Tail(s), acc * 10 + DigitVal(Head(s)))

\* fmt.Sscanf(s, "%d", &value): an optional sign and the digits that follow;
\* what comes after the digits is not read
Sscanf(s) ==
    LET signed == s # <<>> /\ Head(s) \in {"+", "-"}
        body == IF signed THEN Tail(s) ELSE s
    IN  IF body = <<>> \/ ~IsDigit(Head(body)) THEN [err |-> "expected integer", value |-> 0]
        ELSE [err |-> OK,
              value |-> IF signed /\ Head(s) = "-" THEN 0 - DigitsValue(body, 0)
                        ELSE DigitsValue(body, 0)]

HasSuffix(s, c) == s # <<>> /\ s[Len(s)] = c

TrimSuffix(s) == SubSeq(s, 1, Len(s) - 1)

formatDuration(d) ==
    IF d < 60 THEN Itoa(d) \o <<"s">>
    ELSE IF d < 3600 THEN Itoa(d \div 60) \o <<"m">>
    ELSE IF d < 86400 THEN Itoa(d \div 3600) \o <<"h">>
    ELSE Itoa(d \div 86400) \o <<"d">>

parseDuration(str) ==
    LET s == TrimSpace(str)
        multiplier == IF HasSuffix(s, "s") THEN 1
                      ELSE IF HasSuffix(s, "m") THEN 60
                      ELSE IF HasSuffix(s, "h") THEN 3600
                      ELSE IF HasSuffix(s, "d") THEN 86400
                      ELSE 0
        n == Sscanf(TrimSuffix(s))
    IN  IF s = <<>> THEN [err |-> "duration cannot be empty", d |-> 0]
        ELSE IF multiplier = 0 THEN [err |-> "invalid duration suffix", d |-> 0]
        ELSE IF n.err # OK THEN [err |-> "invalid duration value", d |-> 0]
        ELSE IF n.value <= 0 THEN [err |-> "duration value must be positive", d |-> 0]
        ELSE [err |-> OK, d |-> n.value * multiplier]

\* Duration.MarshalYAML: a zero interval is left out of the file
MarshalYAML(d) == IF d = 0 THEN <<>> ELSE formatDuration(d)

UnmarshalYAML(value) == IF value = <<>> THEN [err |-> OK, d |-> 0] ELSE parseDuration(value)

(***************************************************************************)
(* internal/config: the services file and the map a process holds of it    *)
(***************************************************************************)
\* Save: the whole in-memory map replaces the file
Save(services) == [n \in DOMAIN services |-> [services[n] EXCEPT !.Interval = MarshalYAML(@)]]

Load(file) == [n \in DOMAIN file |-> [file[n] EXCEPT !.Interval = UnmarshalYAML(@).d]]

\* each returns the map afterwards, the error, and whether Save ran
AddService(services, svc) ==
    IF Validate(svc) # OK THEN [services |-> services, err |-> Validate(svc), saved |-> FALSE]
    ELSE IF svc.Name \in DOMAIN services
         THEN [services |-> services, err |-> "service already exists", saved |-> FALSE]
    ELSE [services |-> Put(services, svc.Name, svc), err |-> OK, saved |-> TRUE]

RemoveService(services, name) ==
    IF name \notin DOMAIN services
    THEN [services |-> services, err |-> "service does not exist", saved |-> FALSE]
    ELSE [services |-> Del(services, name), err |-> OK, saved |-> TRUE]

UpdateService(services, svc) ==
    IF Validate(svc) # OK THEN [services |-> services, err |-> Validate(svc), saved |-> FALSE]
    ELSE IF svc.Name \notin DOMAIN services
         THEN [services |-> services, err |-> "service does not exist", saved |-> FALSE]
    ELSE [services |-> Put(services, svc.Name, svc), err |-> OK, saved |-> TRUE]

GetScriptsDir == <<"scripts/">>

(***************************************************************************)
(* internal/cli: one nazim process.  A process record holds                *)
(*   cmd, flags   the command line (an elevated child gets the same one)   *)
(*   admin        isAdmin()                                                *)
(*   answers      what its elevation requests get, in order                *)
(*   fail         the failure the environment injects into its Install     *)
(*   root         started by the user, not by an elevation request         *)
(*   pc           "start" (before config.New), "run", "resume", "done"     *)
(*   services     the map config.Load filled                               *)
(*   err          what the command returned                                *)
(*   requests     elevation requests it issued                             *)
(*   found, template, editor   createScriptInteractive: the script file    *)
(*                existed already, the template was written, the editor    *)
(*                was opened                                               *)
(*   installs     the descriptors it handed to the adapter's Install       *)
(*   native       whether it ran the native scheduler's tools itself       *)
(* A step of a process returns the record afterwards, the files and the    *)
(* scheduler afterwards, and the number of elevated children it started.   *)
(***************************************************************************)
\* strings.Fields
RECURSIVE Fields(_)
Fields(str) ==
    LET s == TrimLeft(str)
        n == IF \E i \in 1..Len(s) : s[i] \in WhiteSpace
             THEN (CHOOSE i \in 1..Len(s) :
                     s[i] \in WhiteSpace /\ \A j \in 1..(i - 1) : s[j] \notin WhiteSpace) - 1
             ELSE Len(s)
    IN  IF s = <<>> THEN <<>>
        ELSE <<SubSeq(s, 1, n)>> \o Fields(SubSeq(s, n + 1, Len(s)))

ScriptPath(os, name) ==
    GetScriptsDir \o name \o <<IF os = "windows" THEN ".bat" ELSE ".sh">>

\* the template is written over whatever is there, then the editor runs and the
\* user saves the script
createScriptInteractive(os, scr, serviceName) ==
    LET scriptPath == ScriptPath(os, serviceName)
    IN  [scr |-> Put(Put(scr, scriptPath, "template"), scriptPath, "edited"),
         found |-> scriptPath \in DOMAIN scr,
         scriptPath |-> scriptPath]

\* whether process p has to ask for elevation, and the answer to its k-th request
Unelevated(os, p) == os = "windows" /\ ~p.admin

Answer(os, p, k) == IF Unelevated(os, p) THEN p.answers[k] ELSE None

Kid(os, p, k) == IF Unelevated(os, p) /\ p.answers[k] = "ok" THEN 1 ELSE 0

Exit(p, err, cfg, scr, nat, kids) ==
    [p |-> [p EXCEPT !.pc = "done", !.err = err], cfg |-> cfg, scr |-> scr, nat |-> nat,
     kids |-> kids]

\* Add from the point where Install has returned inst
CliAddFinish(os, p, cfg, scr, inst) ==
    LET rem == RemoveService(p.services, p.flags.Name)
    IN  IF inst.err # OK
        THEN Exit([p EXCEPT !.services = rem.services], "failed to install service",
                  Save(rem.services), scr, inst.st, Kid(os, p, 1))
        ELSE Exit(p, OK, cfg, scr, inst.st, Kid(os, p, 1))

CliAdd(os, p, cfg, scr, nat) ==
    LET flags == p.flags
        interactive == flags.Command \in {<<"write">>, <<"edit">>}
        script == createScriptInteractive(os, scr, flags.Name)
        scr1 == IF interactive THEN script.scr ELSE scr
        p1 == IF interactive
              THEN [p EXCEPT !.found = script.found, !.template = TRUE, !.editor = TRUE]
              ELSE p
        command == IF interactive THEN script.scriptPath ELSE flags.Command
        dur == IF flags.Interval # <<>> THEN parseDuration(flags.Interval)
               ELSE [err |-> OK, d |-> 0]
        svc == [Name |-> flags.Name, Command |-> command, Args |-> Fields(flags.Args),
                WorkDir |-> flags.WorkDir, OnStartup |-> flags.OnStartup,
                Interval |-> dur.d, Enabled |-> TRUE, Platform |-> os]
        add == AddService(p.services, svc)
        cfg1 == IF add.saved THEN Save(add.services) ELSE cfg
        p2 == [p1 EXCEPT !.services = add.services]
        p3 == [p2 EXCEPT !.requests = IF Unelevated(os, p) THEN 1 ELSE 0,
                         !.installs = Append(@, svc),
                         !.native = ~Unelevated(os, p)]
    IN  IF flags.Name = <<>> THEN Exit(p, "service name is required", cfg, scr, nat, 0)
        ELSE IF flags.Command = <<>>
             THEN Exit(p, "service command is required", cfg, scr, nat, 0)
        ELSE IF dur.err # OK THEN Exit(p1, "invalid interval format", cfg, scr1, nat, 0)
        ELSE IF Validate(svc) # OK THEN Exit(p1, Validate(svc), cfg, scr1, nat, 0)
        ELSE IF add.err # OK THEN Exit(p2, "failed to add service", cfg1, scr1, nat, 0)
        ELSE CliAddFinish(os, p3, cfg1, scr1,
                          Install(os, nat, svc, p.admin, Answer(os, p, 1), p.fail))

\* Edit, Enable from the point where Install has returned inst
CliReinstalled(p, cfg, scr, inst, kids) ==
    IF inst.err # OK THEN Exit(p, "failed to reinstall service", cfg, scr, inst.st, kids)
    ELSE Exit(p, OK, cfg, scr, inst.st, kids)

CliEdit(os, p, cfg, scr, nat) ==
    LET flags == p.flags
        name == flags.Name
        existingSvc == p.services[name]
        dur == IF flags.Interval # <<>> THEN parseDuration(flags.Interval)
               ELSE [err |-> OK, d |-> existingSvc.Interval]
        base == [existingSvc EXCEPT
                   !.Command = IF flags.Command # <<>> THEN flags.Command ELSE @,
                   !.Args = IF flags.Args # <<>> THEN Fields(flags.Args) ELSE @,
                   !.WorkDir = IF flags.WorkDir # <<>> THEN flags.WorkDir ELSE @,
                   !.Interval = IF flags.Interval # <<>> THEN dur.d ELSE @]
        updatedSvc == IF flags.OnStartup THEN [base EXCEPT !.OnStartup = TRUE, !.Interval = 0]
                      ELSE IF flags.Interval # <<>> THEN [base EXCEPT !.OnStartup = FALSE]
                      ELSE base
        upd == UpdateService(p.services, updatedSvc)
        p1 == [p EXCEPT !.services = upd.services]
        un == Uninstall(os, nat, name, p.admin, Answer(os, p, 1), None)
        p2 == [p1 EXCEPT !.requests = IF Unelevated(os, p) THEN 2 ELSE 0,
                         !.installs = Append(@, updatedSvc),
                         !.native = ~Unelevated(os, p)]
        kids == Kid(os, p, 1) + Kid(os, p, 2)
    IN  IF name \notin DOMAIN p.services
        THEN Exit(p, "service does not exist", cfg, scr, nat, 0)
        ELSE IF dur.err # OK THEN Exit(p, "invalid interval format", cfg, scr, nat, 0)
        ELSE IF Validate(updatedSvc) # OK THEN Exit(p, Validate(updatedSvc), cfg, scr, nat, 0)
        ELSE CliReinstalled(p2, Save(upd.services), scr,
                            Install(os, un.st, updatedSvc, p.admin, Answer(os, p, 2), p.fail),
                            kids)

\* Remove from the point where Uninstall has returned
CliRemoveFinish(os, p, cfg, scr, nat) ==
    LET name == p.flags.Name
        svc == p.services[name]
        scriptPath == ScriptPath(os, name)
        owned == svc.Command = scriptPath
                 \/ (Len(svc.Command) >= Len(scriptPath)
                     /\ SubSeq(svc.Command, Len(svc.Command) - Len(scriptPath) + 1,
                               Len(svc.Command)) = scriptPath)
        rem == RemoveService(p.services, name)
    IN  Exit([p EXCEPT !.services = rem.services], OK, Save(rem.services),
             IF owned THEN Del(scr, scriptPath) ELSE scr, nat, 0)

\* Remove up to the return of Uninstall; a process whose elevation request was
\* granted goes on while the elevated child starts
CliRemove(os, p, cfg, scr, nat) ==
    LET name == p.flags.Name
        un == Uninstall(os, nat, name, p.admin, Answer(os, p, 1), None)
        p1 == [p EXCEPT !.requests = IF Unelevated(os, p) THEN 1 ELSE 0,
                        !.native = ~Unelevated(os, p)]
    IN  IF name \notin DOMAIN p.services
        THEN Exit(p, "service does not exist", cfg, scr, nat, 0)
        ELSE IF Kid(os, p, 1) = 1
             THEN [p |-> [p1 EXCEPT !.pc = "resume"], cfg |-> cfg, scr |-> scr, nat |-> un.st,
                   kids |-> 1]
        ELSE CliRemoveFinish(os, p1, cfg, scr, un.st)

CliEnable(os, p, cfg, scr, nat) ==
    LET name == p.flags.Name
        svc == [p.services[name] EXCEPT !.Enabled = TRUE]
        upd == UpdateService(p.services, svc)
        p1 == [p EXCEPT !.services = upd.services]
        p2 == [p1 EXCEPT !.requests = IF Unelevated(os, p) THEN 1 ELSE 0,
                         !.installs = Append(@, svc),
                         !.native = ~Unelevated(os, p)]
    IN  IF name \notin DOMAIN p.services
        THEN Exit(p, "service does not exist", cfg, scr, nat, 0)
        ELSE IF p.services[name].Enabled THEN Exit(p, OK, cfg, scr, nat, 0)
        ELSE IF upd.err # OK THEN Exit(p, "failed to enable service", cfg, scr, nat, 0)
        ELSE CliReinstalled(p2, Save(upd.services), scr,
                            Install(os, nat, svc, p.admin, Answer(os, p, 1), p.fail),
                            Kid(os, p, 1))

CliDisable(os, p, cfg, scr, nat) ==
    LET name == p.flags.Name
        svc == [p.services[name] EXCEPT !.Enabled = FALSE]
        upd == UpdateService(p.services, svc)
        p1 == [p EXCEPT !.services = upd.services]
        un == Uninstall(os, nat, name, p.admin, Answer(os, p, 1), None)
        p2 == [p1 EXCEPT !.requests = IF Unelevated(os, p) THEN 1 ELSE 0,
                         !.native = ~Unelevated(os, p)]
    IN  IF name \notin DOMAIN p.services
        THEN Exit(p, "service does not exist", cfg, scr, nat, 0)
        ELSE IF ~p.services[name].Enabled THEN Exit(p, OK, cfg, scr, nat, 0)
        ELSE IF upd.err # OK THEN Exit(p, "failed to disable service", cfg, scr, nat, 0)
        ELSE Exit(p2, OK, Save(upd.services), scr, un.st, Kid(os, p, 1))

\* handleCommand
Handle(os, p, cfg, scr, nat) ==
    IF p.cmd = "add" THEN CliAdd(os, p, cfg, scr, nat)
    ELSE IF p.cmd = "edit" THEN CliEdit(os, p, cfg, scr, nat)
    ELSE IF p.cmd = "remove" THEN CliRemove(os, p, cfg, scr, nat)
    ELSE IF p.cmd = "enable" THEN CliEnable(os, p, cfg, scr, nat)
    ELSE CliDisable(os, p, cfg, scr, nat)

(***************************************************************************)
(* The command line: the user runs one nazim command at a time; a command  *)
(* of an unelevated Windows user may start elevated children, which run    *)
(* concurrently with the rest of their parent.  inv counts the commands    *)
(* the user has run; procs holds the processes of the current one.         *)
(***************************************************************************)
MaxInvocations == 3

\* no flag, a sub-minute interval, one that is not a whole number of minutes, whole minutes
IntervalFlags ==
    {<<>>, <<"3", "0", "s">>, <<"9", "0", "s">>} \cup {Itoa(m) \o <<"m">> : m \in 0..MaxMinutes}

Commands == {"add", "edit", "remove", "enable", "disable"}

FlagsOf(cmd) ==
    IF cmd = "add"
    THEN {[Name |-> n, Command |-> c, Args |-> <<>>, WorkDir |-> <<>>, OnStartup |-> b,
           Interval |-> i] : n \in Names, c \in {<<"x">>, <<"write">>}, b \in BOOLEAN,
                             i \in IntervalFlags}
    ELSE IF cmd = "edit"
    THEN {[Name |-> n, Command |-> c, Args |-> <<>>, WorkDir |-> <<>>, OnStartup |-> b,
           Interval |-> i] : n \in Names, c \in {<<>>, <<"y">>}, b \in BOOLEAN,
                             i \in IntervalFlags}
    ELSE {[Name |-> n, Command |-> <<>>, Args |-> <<>>, WorkDir |-> <<>>, OnStartup |-> FALSE,
           Interval |-> <<>>] : n \in Names}

\* the users: isAdmin() and the answers their elevation requests get
Users(os, cmd) ==
    IF os = "windows"
    THEN {<<TRUE, <<>> >>}
         \cup {<<FALSE, a>> : a \in [1..(IF cmd = "edit" THEN 2 ELSE 1) -> {"ok", "declined"}]}
    ELSE {<<TRUE, <<>> >>}

CliFaults(os) ==
    IF os = "linux" THEN {None, "enable"} ELSE IF os = "darwin" THEN {None, "load"}
    ELSE {None, "create"}

Process(cmd, flags, user, fail) ==
    [cmd |-> cmd, flags |-> flags, admin |-> user[1], answers |-> user[2], fail |-> fail,
     root |-> TRUE, pc |-> "start", services |-> Empty, err |-> OK, requests |-> 0,
     found |-> FALSE, template |-> FALSE, editor |-> FALSE, installs |-> <<>>,
     native |-> FALSE]

\* requestElevation: ShellExecute "runas" starts the same command line elevated
Elevated(p) ==
    [Process(p.cmd, p.flags, <<TRUE, <<>> >>, p.fail) EXCEPT !.root = FALSE]

AllDone == \A i \in 1..Len(procs) : procs[i].pc = "done"

Invoke ==
    /\ AllDone
    /\ inv < MaxInvocations
    /\ \E cmd \in Commands : \E flags \in FlagsOf(cmd), user \in Users(goos, cmd) :
         \E fail \in FaultsOf(user, CliFaults(goos)) :
            procs' = <<Process(cmd, flags, user, fail)>>
    /\ inv' = inv + 1
    /\ UNCHANGED <<goos, native, last, cfgFile, scripts>>

\* config.New: the process reads the services file
Start ==
    \E i \in 1..Len(procs) :
        /\ procs[i].pc = "start"
        /\ procs' = [procs EXCEPT ![i].pc = "run", ![i].services = Load(cfgFile)]
        /\ UNCHANGED <<goos, native, last, cfgFile, scripts, inv>>

Stepped(i, res) ==
    \E r \in {res} :
        /\ procs' = [procs EXCEPT ![i] = r.p] \o [k \in 1..r.kids |-> Elevated(procs[i])]
        /\ cfgFile' = r.cfg
        /\ scripts' = r.scr
        /\ native' = r.nat
        /\ UNCHANGED <<goos, last, inv>>

\* the command's handler, up to its return or to the point where it goes on
\* next to an elevated child
Step ==
    \E i \in 1..Len(procs) :
        /\ procs[i].pc = "run"
        /\ Stepped(i, Handle(goos, procs[i], cfgFile, scripts, native))

Resume ==
    \E i \in 1..Len(procs) :
        /\ procs[i].pc = "resume"
        /\ Stepped(i, CliRemoveFinish(goos, procs[i], cfgFile, scripts, native))

CliInit ==
    /\ goos \in Platforms
    /\ native = EmptyNative(goos)
    /\ last = NoCall
    /\ cfgFile = Empty
    /\ scripts = Empty
    /\ procs = <<>>
    /\ inv = 0

CliNext == Invoke \/ Start \/ Step \/ Resume

SpecCLI == CliInit /\ [][CliNext]_vars

(***************************************************************************)
(* Unchecked input: the user runs add and edit with names, commands and    *)
(* triggers of which some are not valid.                                   *)
(***************************************************************************)
\* a name with a path separator, one that climbs out of the directory
BadNames == {<<"a", "/", "b">>, <<".", ".">>}

\* the triggers: none, at startup, every minute
TypedFlags ==
    {f \in {[Name |-> n, Command |-> c, Args |-> <<>>, WorkDir |-> <<>>, OnStartup |-> b,
             Interval |-> i] : n \in {<<>>, <<"a">>} \cup BadNames,
                               c \in {<<>>, <<"x">>, <<"write">>},
                               b \in BOOLEAN, i \in {<<>>, <<"1", "m">>}} :
        f.OnStartup => f.Interval = <<>>}

InvokeTyped ==
    /\ AllDone
    /\ inv < MaxInvocations
    /\ \E cmd \in {"add", "edit"}, flags \in TypedFlags :
         \E user \in Users(goos, cmd) : procs' = <<Process(cmd, flags, user, None)>>
    /\ inv' = inv + 1
    /\ UNCHANGED <<goos, native, last, cfgFile, scripts>>

TypedNext == InvokeTyped \/ Start \/ Step

SpecTyped == CliInit /\ [][TypedNext]_vars

(***************************************************************************)
(* Several services: an administrator adds, removes, enables and disables  *)
(* services whose names differ only in characters normalizeServiceName     *)
(* deletes, or continue one another.                                       *)
(***************************************************************************)
Neighbours == {<<"a", " ", "b">>, <<"a", "b">>, <<"a", "b", "c">>}

InvokeNamed ==
    /\ AllDone
    /\ inv < MaxInvocations
    /\ \E cmd \in Commands \ {"edit"}, n \in Neighbours, b \in BOOLEAN :
         /\ cmd # "add" => b
         /\ procs' = <<Process(cmd,
                               [Name |-> n,
                                Command |-> IF cmd = "add" THEN <<"x">> ELSE <<>>,
                                Args |-> <<>>, WorkDir |-> <<>>,
                                OnStartup |-> cmd = "add" /\ b,
                                Interval |-> IF cmd = "add" /\ ~b THEN <<"1", "m">> ELSE <<>>],
                               <<TRUE, <<>> >>, None)>>
    /\ inv' = inv + 1
    /\ UNCHANGED <<goos, native, last, cfgFile, scripts>>

NamesNext == InvokeNamed \/ Start \/ Step

SpecNames == CliInit /\ [][NamesNext]_vars

(***************************************************************************)
(* The helpers on their own: one call of a helper on an input drawn from a *)
(* bounded set.  last holds the pending call and then its result:          *)
(*   op    the helper called                                               *)
(*   in    its input                                                       *)
(*   out   what it returned, once done                                     *)
(***************************************************************************)
MaxLen == 2

StringsUpTo(alphabet, n) == UNION {[1..k -> alphabet] : k \in 0..n}

Pending(op, in) == [op |-> op, in |-> in, out |-> None, done |-> FALSE]

Applied(out) ==
    /\ last' = [last EXCEPT !.out = out, !.done = TRUE]
    /\ UNCHANGED <<goos, cfgFile, scripts, procs, inv>>

\* the characters that end a line of a unit file
LineBreaks == {"\n", "\r"}

\* descriptors whose fields hold line breaks: names and working directories of
\* one character, commands and arguments of up to MaxLen
UnitAlphabet == {"a"} \cup LineBreaks

UnitServices ==
    {[Name |-> n, Command |-> c, Args |-> a, WorkDir |-> w, OnStartup |-> i = 0,
      Interval |-> i, Enabled |-> TRUE, Platform |-> "linux"] :
        n \in StringsUpTo(UnitAlphabet, 1) \ {<<>>},
        c \in StringsUpTo(UnitAlphabet, MaxLen) \ {<<>>},
        a \in {<<>>} \cup {<<s>> : s \in StringsUpTo(UnitAlphabet, MaxLen)},
        w \in StringsUpTo(UnitAlphabet, 1),
        i \in {0, 60}}

\* LinuxManager.Install on an empty systemd user directory
ApplyInstallSystemd ==
    /\ last.op = "installSystemd" /\ ~last.done
    /\ \E r \in {LinuxInstall(native, last.in, None)} :
         /\ native' = r.st
         /\ Applied(r.err)

\* argument lists over letters, space, double quote and backslash; the command
\* is a file path, which holds no double quote on Windows
CommandAlphabet == {"a", " ", "\"", "\\"}

CommandLines ==
    {[cmd |-> c, args |-> a] :
        c \in StringsUpTo(CommandAlphabet \ {"\""}, MaxLen) \ {<<>>},
        a \in {<<>>} \cup {<<x>> : x \in StringsUpTo(CommandAlphabet, MaxLen) \ {<<>>}}}

ApplyBuildWindowsCommand ==
    /\ last.op = "buildWindowsCommand" /\ ~last.done
    /\ native' = native
    /\ Applied(buildWindowsCommand(last.in.cmd, last.in.args))

\* names over the characters normalizeServiceName looks for and two it does not
NameAlphabet ==
    {" ", "\t", "\n", "\r", "\\", "/", ":", "*", "?", "\"", "<", ">", "|", "a", "."}

ApplyNormalize ==
    /\ last.op = "normalizeServiceName" /\ ~last.done
    /\ native' = native
    /\ Applied(normalizeServiceName(last.in))

\* interval flags as the user types them: a count and one of the four units
MaxCount == 61

AcceptedIntervals == {Itoa(n) \o <<u>> : n \in 0..MaxCount, u \in {"s", "m", "h", "d"}}

\* handleAdd's parseDuration on the flag, then Install of the interval service
ApplyInstallInterval ==
    /\ last.op = "installInterval" /\ ~last.done
    /\ \E p \in {parseDuration(last.in)} :
         IF p.err # OK THEN native' = native /\ Applied(p.err)
         ELSE \E r \in {LinuxInstall(native,
                            Service(<<"a">>, [Command |-> <<"x">>, Args |-> <<>>,
                                              WorkDir |-> <<>>], FALSE, p.d, "linux"),
                            None)} :
                /\ native' = r.st
                /\ Applied(r.err)

\* an interval the command line accepted is written by Save and read back by Load
ApplySaveAndLoad ==
    /\ last.op = "MarshalYAML" /\ ~last.done
    /\ native' = native
    /\ \E p \in {parseDuration(last.in)} :
         IF p.err # OK THEN Applied(p)
         ELSE Applied(UnmarshalYAML(MarshalYAML(p.d)))

FunctionsInit ==
    /\ cfgFile = Empty
    /\ scripts = Empty
    /\ procs = <<>>
    /\ inv = None
    /\ \/ \E svc \in UnitServices :
            goos = "linux" /\ native = LinuxEmpty /\ last = Pending("installSystemd", svc)
       \/ \E line \in CommandLines :
            /\ goos = "windows" /\ native = WindowsEmpty
            /\ last = Pending("buildWindowsCommand", line)
       \/ \E name \in StringsUpTo(NameAlphabet, MaxLen) :
            /\ goos \in Platforms /\ native = EmptyNative(goos)
            /\ last = Pending("normalizeServiceName", name)
       \/ \E flag \in AcceptedIntervals :
            goos = "linux" /\ native = LinuxEmpty /\ last = Pending("installInterval", flag)
       \/ \E flag \in AcceptedIntervals :
            /\ goos \in Platforms /\ native = EmptyNative(goos)
            /\ last = Pending("MarshalYAML", flag)

FunctionsNext ==
    \/ ApplyInstallSystemd \/ ApplyBuildWindowsCommand \/ ApplyNormalize
    \/ ApplyInstallInterval \/ ApplySaveAndLoad

SpecFunctions == FunctionsInit /\ [][FunctionsNext]_vars

(***************************************************************************)
(* Properties of the adapters, over SpecAdapter                            *)
(***************************************************************************)

\* a call the calling process carried out itself, with no elevation hand-off,
\* in an environment that did not fail
Direct(op) == last.op = op /\ last.admin /\ last.fault = None

\* C1: on every adapter, when Install(D) returns without error for a valid
\* descriptor D (interval or startup), IsInstalled(D.name) is true right after.
\* Stated for the callers that install by themselves.
C1_InstalledAfterInstall ==
    (Direct("Install") /\ last.err = OK) => IsInstalled(goos, native, last.name)

C3_DisableEnableRoundTrip ==
    /\ (Direct("Disable") /\ last.pre = "fresh") =>
           /\ last.err = OK
           /\ GetTaskState(goos, native, last.name) = [state |-> "Disabled", err |-> OK]
    /\ (Direct("Enable") /\ last.pre = "fresh-disabled") =>
           /\ last.err = OK
           /\ GetTaskState(goos, native, last.name) = [state |-> "Enabled", err |-> OK]

\* C4: Install is an idempotent overwrite: after Install(D1) and then
\* Install(D2) under the same name, the scheduler holds exactly what
\* Install(D2) creates and nothing that was written for D1.
C4_InstallOverwrites ==
    (Direct("Install") /\ last.err = OK /\ last.pre = "fresh") =>
        native = Install(goos, EmptyNative(goos), last.svc, TRUE, None, None).st

\* C8: on Windows without admin rights, Uninstall, Enable and Disable
\* return a failure only when the elevation request failed or was declined.
C8_FailureOnlyWhenElevationFails ==
    (goos = "windows" /\ last.op \in {"Uninstall", "Enable", "Disable"}
        /\ ~last.admin /\ last.err # OK) => last.elev \in {"declined", "failed"}

\* C9: on Windows without admin rights, an Install whose elevation request
\* succeeds returns no error and changes nothing itself: it runs no
\* schtasks command and writes no wrapper script or log directory.
C9_UnelevatedInstallIsInert ==
    (goos = "windows" /\ last.op = "Install" /\ ~last.admin /\ last.elev = "ok") =>
        /\ last.err = OK
        /\ last.tools = {}
        /\ ~last.mutated

\* an unelevated Install, its elevation granted, called while a task of the
\* same name exists
C9_Witness ==
    /\ goos = "windows" /\ last.op = "Install" /\ ~last.admin /\ last.elev = "ok"
    /\ WindowsIsInstalled(native, last.name)

(***************************************************************************)
(* Properties of the command line, over SpecCLI                            *)
(***************************************************************************)

DualTrigger(svc) == svc.OnStartup /\ svc.Interval > 0

\* C5: a descriptor with OnStartup and a positive Interval is rejected by
\* Validate, so none is ever stored in the config or handed to an adapter's
\* Install by add or edit.
C5_NoDualTriggerStoredOrInstalled ==
    /\ \A n \in DOMAIN cfgFile : ~DualTrigger(Load(cfgFile)[n])
    /\ \A i \in 1..Len(procs) : \A k \in 1..Len(procs[i].installs) :
          ~DualTrigger(procs[i].installs[k])

\* the user's command was `cmd`, run on Windows without admin rights, and its
\* first elevation request was granted
HandedOff(cmd) ==
    /\ goos = "windows" /\ procs # <<>>
    /\ procs[1].cmd = cmd /\ ~procs[1].admin
    /\ procs[1].requests >= 1 /\ procs[1].answers[1] = "ok"

\* C6: when an unelevated Windows user runs add and the elevation request is
\* granted, then once the parent and the elevated child have both finished
\* the task Nazim_<safeName> exists and the config holds the service.
\* Stated for descriptors schtasks can schedule.
C6_HandOffCompletesAdd ==
    (HandedOff("add") /\ AllDone /\ ScheduleArgs(procs[1].installs[1]) # <<>>) =>
        /\ WindowsIsInstalled(native, procs[1].flags.Name)
        /\ procs[1].flags.Name \in DOMAIN cfgFile

\* C7: one command of an unelevated Windows user issues at most one
\* elevation request and starts at most one elevated child, whatever the
\* command.
C7_AtMostOneElevation ==
    /\ \A i \in 1..Len(procs) : procs[i].requests <= 1
    /\ Cardinality({i \in 1..Len(procs) : ~procs[i].root}) <= 1

\* C10: an elevated child re-running `add --command write` that finds the
\* script file already created neither writes the template over it nor
\* opens the editor again.
C10_ScriptNotRepeated ==
    \A i \in 1..Len(procs) :
        (~procs[i].root /\ procs[i].found) => (~procs[i].template /\ ~procs[i].editor)

(***************************************************************************)
(* Properties of the helpers, over SpecFunctions                           *)
(***************************************************************************)

\* the first token of every line of a unit file, "" for an empty line
RECURSIVE LineHeads(_, _)
LineHeads(content, cur) ==
    IF content = <<>> THEN cur
    ELSE IF Head(content) \in LineBreaks
         THEN (IF cur = <<>> THEN <<"">> ELSE cur) \o LineHeads(Tail(content), <<>>)
    ELSE LineHeads(Tail(content), IF cur = <<>> THEN <<Head(content)>> ELSE cur)

\* the directive lines installSystemd writes to a .service and to a .timer file
ServiceDirectives(svc) ==
    <<"[Unit]", "Description=Nazim Service: ", "After=network.target", "", "[Service]",
      "Type=oneshot", "ExecStart=">>
    \o (IF svc.WorkDir # <<>> THEN <<"WorkingDirectory=">> ELSE <<>>)
    \o <<"StandardOutput=append:", "StandardError=append:", "", "[Install]",
         "WantedBy=default.target">>

TimerDirectives ==
    <<"[Unit]", "Description=Timer for Nazim Service: ", "", "[Timer]", "OnBootSec=",
      "OnUnitActiveSec=", "", "[Install]", "WantedBy=timers.target">>

HasLineBreak(svc) ==
    ContainsAny(svc.Command, LineBreaks)
    \/ \E i \in 1..Len(svc.Args) : ContainsAny(svc.Args[i], LineBreaks)

\* C11: when the command or an argument holds a newline or a carriage return,
\* Install fails and writes no unit file; otherwise the lines of every unit file
\* written are exactly the fixed directive lines, whatever the name, command,
\* arguments and working directory hold.
C11_NoDirectiveInjection ==
    (last.op = "installSystemd" /\ last.done) =>
        IF HasLineBreak(last.in)
        THEN last.out # OK /\ native.files = Empty
        ELSE /\ last.out = OK
             /\ \A f \in DOMAIN native.files :
                    LineHeads(native.files[f], <<>>) =
                        IF f = ServiceUnit(normalizeServiceName(last.in.Name))
                        THEN ServiceDirectives(last.in) ELSE TimerDirectives

\* a unit file was written for a descriptor whose name and working directory
\* hold line breaks
C11_Witness ==
    /\ last.op = "installSystemd" /\ last.done /\ last.out = OK
    /\ last.in.Name \in {<<"\n">>, <<"\r">>} /\ last.in.WorkDir \in {<<"\n">>, <<"\r">>}
    /\ last.in.Interval > 0
    /\ Cardinality(DOMAIN native.files) = 2

\* C12: for every command and argument list over letters, space, double quote
\* and backslash, splitting the command line buildWindowsCommand produced the way
\* Windows does gives back the command and the arguments.
C12_WindowsCommandRoundTrip ==
    (last.op = "buildWindowsCommand" /\ last.done) =>
        CommandLineToArgv(last.out) = <<last.in.cmd>> \o last.in.args

\* the characters the native identifiers must not hold
Forbidden == {" ", "\t", "\r", "\n", "\\", "/", ":", "*", "?", "\"", "<", ">", "|"}

\* C13: normalizeServiceName returns its argument without the characters space,
\* tab, CR, LF, \ / : * ? " < > | and with every other character kept in order;
\* normalizing the result again changes nothing.
C13_NormalizeDeletesExactly ==
    (last.op = "normalizeServiceName" /\ last.done) =>
        /\ last.out = SelectSeq(last.in, LAMBDA c : c \notin Forbidden)
        /\ normalizeServiceName(last.out) = last.out

\* a name that mixes forbidden and other characters was normalized
C13_Witness ==
    /\ last.op = "normalizeServiceName" /\ last.done
    /\ last.in = <<"|", "a">> /\ last.out = <<"a">>

(***************************************************************************)
(* Properties of services next to one another, over SpecNames              *)
(***************************************************************************)

\* what the native scheduler holds under the identifiers derived from a name
Held(f, k) == IF k \in DOMAIN f THEN {f[k]} ELSE {}

Definition(os, st, name) ==
    LET n == normalizeServiceName(name)
    IN  IF os = "linux"
        THEN <<Held(st.files, ServiceUnit(n)), Held(st.files, TimerUnit(n)),
               st.enabled \cap {ServiceUnit(n), TimerUnit(n)},
               st.active \cap {ServiceUnit(n), TimerUnit(n)}>>
        ELSE IF os = "darwin"
        THEN <<Held(st.files, PlistFile(n)), Held(st.loaded, Label(n))>>
        ELSE <<Held(st.tasks, TaskName(n)), Held(st.files, WrapperPath(n))>>

\* C14: a command about service A leaves the native definition of every other
\* stored service B as it was.
C14_OwnNativeDefinition ==
    [][\A B \in (DOMAIN cfgFile) \cap (DOMAIN cfgFile') :
          (procs # <<>> /\ B # procs[1].flags.Name /\ validateServiceName(B) = OK)
              => Definition(goos, native', B) = Definition(goos, native, B)]_vars

\* whether the native scheduler holds a unit, agent or task for the name
HasDefinition(os, st, name) ==
    Definition(os, st, name) # Definition(os, EmptyNative(os), name)

\* C16: for a name with no native definition GetTaskState returns an error, never
\* Enabled or Disabled, and Enable returns an error.
C16_AbsentIsAnError ==
    \A n \in Neighbours :
        ~HasDefinition(goos, native, n) =>
            /\ GetTaskState(goos, native, n).err # OK
            /\ GetTaskState(goos, native, n).state \notin {"Enabled", "Disabled"}
            /\ Enable(goos, native, n, TRUE, None, None).err # OK

(***************************************************************************)
(* Further properties of the adapters, over SpecAdapter                    *)
(***************************************************************************)

\* C15: Uninstall and Disable of a name that has no native task, unit or agent
\* succeed and change nothing.  Stated for callers that act by themselves in an
\* environment that does not fail.
C15_AbsentIsANoOp ==
    [][(last'.op \in {"Uninstall", "Disable"} /\ last'.admin /\ last'.fault = None
        /\ ~HasDefinition(goos, native, last'.name))
          => (last'.err = OK /\ native' = native)]_vars

\* C17: on Windows, Install of a descriptor that has both OnStartup and a
\* positive Interval returns an error and leaves no scheduled task of that name.
C17_WindowsDualTriggerFailsFast ==
    (goos = "windows" /\ Direct("Install") /\ DualTrigger(last.svc))
        => /\ last.err # OK
           /\ TaskName(normalizeServiceName(last.name)) \notin DOMAIN native.tasks

\* C19: on Windows, Install of a descriptor with a positive Interval and no
\* OnStartup creates the task with the schedule arguments /sc minute /mo <minutes>.
C19_WindowsIntervalSchedule ==
    (goos = "windows" /\ Direct("Install")
     /\ ~last.svc.OnStartup /\ last.svc.Interval > 0)
        => /\ Len(ScheduleArgs(last.svc)) = 4
           /\ SubSeq(ScheduleArgs(last.svc), 1, 3) = <<"/sc", "minute", "/mo">>
           /\ TaskName(normalizeServiceName(last.name)) \in DOMAIN native.tasks
           /\ native.tasks[TaskName(normalizeServiceName(last.name))].sched
                  = ScheduleArgs(last.svc)

\* C20: on Linux, after a successful Disable of a service that was just installed
\* with an interval, the timer is neither enabled nor active, and the .service
\* and .timer unit files are still there.
C20_LinuxDisableStopsTimer ==
    (goos = "linux" /\ Direct("Disable") /\ last.err = OK /\ last.pre = "fresh"
     /\ TimerUnit(normalizeServiceName(last.name)) \in DOMAIN native.files)
        => /\ TimerUnit(normalizeServiceName(last.name)) \notin native.enabled
           /\ TimerUnit(normalizeServiceName(last.name)) \notin native.active
           /\ ServiceUnit(normalizeServiceName(last.name)) \in DOMAIN native.files

\* the value that follows `key` on its line of a unit file
ValueOf(content, key) ==
    LET i == CHOOSE i \in 1..Len(content) : content[i] = key
        j == CHOOSE j \in (i + 1)..Len(content) :
                 content[j] = "\n" /\ \A k \in (i + 1)..(j - 1) : content[k] # "\n"
    IN  SubSeq(content, i + 1, j - 1)

\* systemd.time: a number followed by s, m or h is that many seconds, minutes or hours
SystemdDenotes(value, d) ==
    \E n \in 0..d :
        \/ value = <<ToString(n), "s">> /\ n = d
        \/ value = <<ToString(n), "m">> /\ n * 60 = d
        \/ value = <<ToString(n), "h">> /\ n * 3600 = d

\* C18: for every interval the command line accepts, the OnBootSec and
\* OnUnitActiveSec values of the installed timer unit both denote that interval.
C18_TimerDenotesInterval ==
    (last.op = "installInterval" /\ last.done /\ last.out = OK)
        => /\ SystemdDenotes(ValueOf(native.files[TimerUnit(<<"a">>)], "OnBootSec="),
                             parseDuration(last.in).d)
           /\ SystemdDenotes(ValueOf(native.files[TimerUnit(<<"a">>)], "OnUnitActiveSec="),
                             parseDuration(last.in).d)

\* process 1 is the user's command `cmd`, run with the rights to act by itself,
\* and this step is its handler
Handles(cmd) ==
    /\ Len(procs) = 1 /\ procs[1].pc = "run" /\ procs[1].cmd = cmd
    /\ ~Unelevated(goos, procs[1])
    /\ procs'[1].pc = "done"

\* C21: `disable` on an installed, enabled service leaves it installed, with the
\* same native definition, and stores the enabled flag as false.
C21_DisableKeepsInstalled ==
    [][(/\ Handles("disable")
        /\ procs[1].flags.Name \in DOMAIN cfgFile
        /\ cfgFile[procs[1].flags.Name].Enabled
        /\ IsInstalled(goos, native, procs[1].flags.Name))
          => /\ procs'[1].err = OK
             /\ ~cfgFile'[procs[1].flags.Name].Enabled
             /\ IsInstalled(goos, native', procs[1].flags.Name)]_vars

\* the stored descriptor of a service, as config.Load reads it
Stored(file, name) == Load(file)[name]

\* C22: an edit changes only what its flags name.  Name, enabled and platform
\* never change; command, args and workdir change only when their flag is given;
\* a successful edit with --on-startup stores on_startup true and no interval,
\* one with --interval alone stores that interval and on_startup false, and one
\* with neither flag leaves the stored trigger as it was.
C22_EditChangesOnlyNamed ==
    [][\A i \in 1..Len(procs) :
         (/\ procs[i].pc = "run" /\ procs[i].cmd = "edit" /\ procs'[i].pc = "done"
          /\ procs[i].flags.Name \in DOMAIN cfgFile)
           => /\ procs[i].flags.Name \in DOMAIN cfgFile'
              /\ \E f \in {procs[i].flags}, old \in {Stored(cfgFile, procs[i].flags.Name)},
                    new \in {Stored(cfgFile', procs[i].flags.Name)} :
                   /\ new.Name = old.Name /\ new.Enabled = old.Enabled
                   /\ new.Platform = old.Platform
                   /\ f.Command = <<>> => new.Command = old.Command
                   /\ f.Args = <<>> => new.Args = old.Args
                   /\ f.WorkDir = <<>> => new.WorkDir = old.WorkDir
                   /\ (~f.OnStartup /\ f.Interval = <<>>)
                        => (new.OnStartup = old.OnStartup /\ new.Interval = old.Interval)
                   /\ (procs'[i].err = OK /\ f.OnStartup)
                        => (new.OnStartup /\ new.Interval = 0)
                   /\ (procs'[i].err = OK /\ ~f.OnStartup /\ f.Interval # <<>>)
                        => (~new.OnStartup /\ new.Interval = parseDuration(f.Interval).d)]_vars

\* the descriptor that add builds from these flags fails Validate
AddRejected(flags) ==
    \/ validateServiceName(flags.Name) # OK
    \/ flags.Command = <<>>
    \/ ~flags.OnStartup /\ flags.Interval = <<>>

\* the descriptor that edit builds from the stored one and these flags fails Validate
EditRejected(old, flags) ==
    \/ validateServiceName(old.Name) # OK
    \/ flags.Command = <<>> /\ old.Command = <<>>
    \/ ~flags.OnStartup /\ flags.Interval = <<>> /\ ~old.OnStartup /\ old.Interval = 0

\* C23: an add or edit whose descriptor fails Validate runs no native scheduler
\* tool, asks for no elevation and leaves the config file as it was.
C23_RejectedBeforeAnyEffect ==
    [][\A i \in 1..Len(procs) :
         (/\ procs[i].pc = "run"
          /\ procs'[i].pc = "done"
          /\ \/ procs[i].cmd = "add" /\ AddRejected(procs[i].flags)
             \/ /\ procs[i].cmd = "edit"
                /\ procs[i].flags.Name \in DOMAIN procs[i].services
                /\ EditRejected(procs[i].services[procs[i].flags.Name], procs[i].flags))
           => /\ procs'[i].err # OK
              /\ native' = native /\ cfgFile' = cfgFile
              /\ ~procs'[i].native /\ procs'[i].requests = 0
              /\ procs'[i].installs = <<>>
              /\ Len(procs') = Len(procs)]_vars

\* an add with a trigger, a command and a name that is not valid has returned
C23_Witness ==
    \E i \in 1..Len(procs) :
        /\ procs[i].pc = "done" /\ procs[i].cmd = "add"
        /\ procs[i].flags.Name \in BadNames
        /\ procs[i].flags.Command = <<"x">> /\ procs[i].flags.OnStartup
        /\ procs[i].err = "invalid service name"

\* C30: an add whose name fails validateServiceName creates or overwrites no
\* script file and opens no editor, whatever the command is.
C30_NameValidatedBeforeScript ==
    [][\A i \in 1..Len(procs) :
         (/\ procs[i].pc = "run" /\ procs[i].cmd = "add"
          /\ procs'[i].pc = "done"
          /\ validateServiceName(procs[i].flags.Name) # OK)
           => /\ scripts' = scripts
              /\ ~procs'[i].template /\ ~procs'[i].editor]_vars

\* C24: Run of a service that is installed, enabled or disabled, succeeds and
\* changes neither what IsInstalled and GetState answer nor any file.
C24_RunLeavesStateUnchanged ==
    [][(/\ last'.op = "Run" /\ last'.fault = None
        /\ IsInstalled(goos, native, last'.name)
        /\ GetTaskState(goos, native, last'.name).state \in {"Enabled", "Disabled"})
          => /\ last'.err = OK
             /\ IsInstalled(goos, native', last'.name)
             /\ GetTaskState(goos, native', last'.name) = GetTaskState(goos, native, last'.name)
             /\ native'.files = native.files]_vars

Restrict(f, keys) == [k \in (DOMAIN f) \cap keys |-> f[k]]

\* the macOS or Windows scheduler with nothing in it but the definition of `name`
Alone(os, st, name) ==
    LET n == normalizeServiceName(name)
    IN  IF os = "darwin"
        THEN [st EXCEPT !.files = Restrict(@, {PlistFile(n)}),
                        !.loaded = Restrict(@, {Label(n)})]
        ELSE [st EXCEPT !.tasks = Restrict(@, {TaskName(n)}),
                        !.files = Restrict(@, {WrapperPath(n)})]

\* C25: on macOS and Windows GetState of an installed service answers what it
\* would answer if no other service were there.
C25_StateOfOwnServiceOnly ==
    goos \in {"darwin", "windows"}
        => \A A \in SideBySide :
              IsInstalled(goos, native, A)
                  => GetTaskState(goos, native, A) = GetTaskState(goos, Alone(goos, native, A), A)

\* C26: an interval that parseDuration accepts is the interval read back after
\* it was written with formatDuration.
C26_IntervalRoundTrip ==
    (last.op = "MarshalYAML" /\ last.done /\ parseDuration(last.in).err = OK)
        => (last.out.err = OK /\ last.out.d = parseDuration(last.in).d)

\* C27: when an unelevated Windows user runs remove and the elevation request is
\* granted, then once the process and its elevated child have both finished the
\* scheduled task is gone and the config holds no entry for the name.
C27_RemoveLeavesNoOrphan ==
    (HandedOff("remove") /\ Len(procs) = 2 /\ AllDone)
        => /\ TaskName(normalizeServiceName(procs[1].flags.Name)) \notin DOMAIN native.tasks
           /\ procs[1].flags.Name \notin DOMAIN cfgFile

\* C28: when an edit returns an error because the reinstall failed, either the
\* config file and the native definition are both as they were before the edit,
\* or the config file is updated and the service is installed.
C28_FailedEditStaysConsistent ==
    [][(Handles("edit") /\ procs'[1].err = "failed to reinstall service")
          => \/ /\ cfgFile' = cfgFile
                /\ Definition(goos, native', procs[1].flags.Name)
                      = Definition(goos, native, procs[1].flags.Name)
             \/ IsInstalled(goos, native', procs[1].flags.Name)]_vars

\* C29: when add returns an error because Install failed, the config file has no
\* entry for the name and the failed Install has left no file behind.
C29_FailedAddLeavesNoTrace ==
    [][(/\ Handles("add") /\ procs'[1].err = "failed to install service"
        /\ procs[1].flags.Name \notin DOMAIN cfgFile)
          => /\ procs[1].flags.Name \notin DOMAIN cfgFile'
             /\ native'.files = native.files]_vars

====
